---- MODULE Spec2Model ----
(***************************************************************************)
(* GenFeatures-UI: the App component's generation engine (index.tsx).      *)
(*                                                                         *)
(* State: the React state of App (sessions, currentSessionIndex,           *)
(* focusedArtifactIndex, isLoading, drawerState, componentVariations), the *)
(* position of the one batch handleSendMessage may have in flight and of   *)
(* its three generateArtifact tasks, and the position of the variation     *)
(* request.  Every action is one event-loop task: a user event handler, or *)
(* the continuation of an async function after one await, together with    *)
(* every microtask continuation that follows it.                           *)
(*                                                                         *)
(* Text is a sequence of one-character strings.  Indices are 0-based as in *)
(* the source; At(s, i) reads element i of a TLA+ sequence.                *)
(***************************************************************************)
EXTENDS Integers, Sequences, FiniteSets, TLC

\* ------------------------------------------------------------------ bounds
\* sessions one run creates by a generate request
MaxBatches == 1
\* sessions one run restores from the vault
MaxRestores == 1
\* text increments the generators of one batch deliver in total
MaxChunks == 3
\* variations one variation stream adds to the list
MaxEmits == 1
\* variation requests of one run
MaxVarRequests == 1
\* variation requests, and variations listed, where only the variation
\* view runs
MaxViewRequests == 2

MaxListed == 2
\* chunks of one stream read by parseJsonStream
MaxFrags == 4
\* objects (or other items) one such stream carries
MaxItems == 2

\* ------------------------------------------------------- program constants
\* Array(3): the fan-out of a batch
N == 3
\* useState<number | null>(null): the null of focusedArtifactIndex
Null == -1

ArtIdx == 0 .. (N - 1)

\* --------------------------------------------------------------- sequences
At(s, i) == s[i + 1]

InRange(s, i) == i >= 0 /\ i < Len(s)

\* String.prototype.substring(n)
Drop(s, n) == IF n >= Len(s) THEN << >> ELSE SubSeq(s, n + 1, Len(s))

\* String.prototype.substring(0, n)
Take(s, n) == IF n <= 0 THEN << >> ELSE SubSeq(s, 1, IF n > Len(s) THEN Len(s) ELSE n)

StartsWith(s, p) == Len(s) >= Len(p) /\ SubSeq(s, 1, Len(p)) = p

EndsWith(s, p) == Len(s) >= Len(p) /\ SubSeq(s, Len(s) - Len(p) + 1, Len(s)) = p

IsWs(c) == c \in {" ", "\n"}

RECURSIVE TrimStart(_)
TrimStart(s) == IF s # << >> /\ IsWs(Head(s)) THEN TrimStart(Tail(s)) ELSE s

RECURSIVE TrimEnd(_)
TrimEnd(s) ==
  IF s # << >> /\ IsWs(s[Len(s)]) THEN TrimEnd(SubSeq(s, 1, Len(s) - 1)) ELSE s

\* mutant: the prompt is used as typed, without String.prototype.trim
Trim_AsTyped(s) == s

Trim(s) == TrimEnd(TrimStart(s))

\* "^" stands for the backquote character, which a TLA+ string cannot hold
Fence == << "^", "^", "^" >>

FenceHtml == Fence \o << "h", "t", "m", "l" >>

\* generateArtifact: finalHtml from accumulatedHtml
StripFences(acc) ==
  LET t0 == Trim(acc)
      t1 == IF StartsWith(t0, FenceHtml) THEN TrimStart(Drop(t0, 7)) ELSE t0
      t2 == IF StartsWith(t1, Fence) THEN TrimStart(Drop(t1, 3)) ELSE t1
      t3 == IF EndsWith(t2, Fence) THEN TrimEnd(Take(t2, Len(t2) - 3)) ELSE t2
  IN  t3

\* mutant: every ended stream counts as a success
FinalStatus_AlwaysComplete(finalHtml) == "complete"

\* finalHtml ? complete : error
FinalStatus(finalHtml) == IF finalHtml # << >> THEN "complete" ELSE "error"

\* ------------------------------------------------------ direction labels
\* The direction response is a sequence of tokens: "[", "]", ",", a label
\* (one JSON string literal) or "x" (any other text).
Labels == {"A", "B", "C", "D"}

FallbackStyles == << "Modern Minimal", "High-Tech Dark", "Organic Flow" >>

\* styleResponse.text || '[]'
StyleTextOf(text) == IF text = << >> THEN << "[", "]" >> ELSE text

Positions(text, tok) == {i \in 1 .. Len(text) : text[i] = tok}

Min(S) == CHOOSE x \in S : \A y \in S : x <= y

Max(S) == CHOOSE x \in S : \A y \in S : x >= y

\* styleText.match(/\[[\s\S]*\]/): the span from the first "[" to the last "]"
\* after it; << >> stands for no match (a match is never empty)
StyleMatch(styleText) ==
  LET opens == Positions(styleText, "[")
      closes == Positions(styleText, "]")
  IN  IF opens = {} \/ closes = {} \/ Max(closes) < Min(opens)
        THEN << >>
        ELSE SubSeq(styleText, Min(opens), Max(closes))

\* JSON.parse of a matched span that is an array of string literals:
\* "[" "]", or "[" label ("," label)* "]"
IsJsonArray(span) ==
  /\ Len(span) >= 2
  /\ span[1] = "["
  /\ span[Len(span)] = "]"
  /\ \/ Len(span) = 2
     \/ /\ Len(span) % 2 = 1
        /\ \A i \in 2 .. (Len(span) - 1) :
             IF i % 2 = 0 THEN span[i] \in Labels ELSE span[i] = ","

\* the parsed array: the labels of the span in order
JsonArrayOf(span) ==
  [k \in 1 .. ((Len(span) - 1) \div 2) |-> span[2 * k]]

\* handleSendMessage: generatedStyles from the response text
ResolveStyles(text) ==
  LET styleText == StyleTextOf(text)
      jsonMatch == StyleMatch(styleText)
      parsed == IF jsonMatch # << >> /\ IsJsonArray(jsonMatch)
                  THEN JsonArrayOf(jsonMatch)
                  ELSE << >>
      styles == IF Len(parsed) < N THEN FallbackStyles ELSE parsed
  IN  Take(styles, N)

\* ------------------------------------------------------- session patches
\* mutant: the placeholder is created already complete
NewArtifact_Complete(sessionId, i) ==
  [id |-> << sessionId, i >>, styleName |-> "Designing...", html |-> << >>,
   status |-> "complete"]

NewArtifact(sessionId, i) ==
  [id |-> << sessionId, i >>, styleName |-> "Designing...", html |-> << >>,
   status |-> "streaming"]

NewSession(sessionId, prompt) ==
  [id |-> sessionId, prompt |-> prompt,
   artifacts |-> [k \in 1 .. N |-> NewArtifact(sessionId, k - 1)]]

\* mutant: the style publish keeps only the session of the batch
PatchStyles_DropsOthers(prev, sessionId, styles) ==
  SelectSeq(prev, LAMBDA sess : sess.id = sessionId)

\* setSessions(prev => prev.map(s => s.id !== sessionId ? s : {...s, artifacts:
\*   s.artifacts.map((art, i) => ({...art, styleName: generatedStyles[i]}))}))
PatchStyles(prev, sessionId, styles) ==
  [x \in 1 .. Len(prev) |->
     IF prev[x].id # sessionId THEN prev[x]
     ELSE [prev[x] EXCEPT !.artifacts =
             [y \in 1 .. Len(prev[x].artifacts) |->
                [prev[x].artifacts[y] EXCEPT !.styleName =
                   IF y <= Len(styles) THEN styles[y] ELSE "undefined"]]]]

\* mutant: the increment is written to every artifact of the session
PatchHtml_AnyArtifact(prev, sessionId, artifactId, html) ==
  [x \in 1 .. Len(prev) |->
     IF prev[x].id = sessionId
       THEN [prev[x] EXCEPT !.artifacts =
               [y \in 1 .. Len(prev[x].artifacts) |->
                  [prev[x].artifacts[y] EXCEPT !.html = html]]]
       ELSE prev[x]]

\* mutant: the session is addressed by position (the last one) and the
\* artifact by its index, not by their ids
PatchHtml_LastSession(prev, sessionId, artifactId, html) ==
  [x \in 1 .. Len(prev) |->
     IF x = Len(prev)
       THEN [prev[x] EXCEPT !.artifacts =
               [y \in 1 .. Len(prev[x].artifacts) |->
                  IF y - 1 = artifactId[2]
                    THEN [prev[x].artifacts[y] EXCEPT !.html = html]
                    ELSE prev[x].artifacts[y]]]
       ELSE prev[x]]

\* setSessions(prev => prev.map(sess => sess.id === sessionId ? {...sess,
\*   artifacts: sess.artifacts.map(art => art.id === artifact.id
\*     ? {...art, html: accumulatedHtml} : art)} : sess))
PatchHtml(prev, sessionId, artifactId, html) ==
  [x \in 1 .. Len(prev) |->
     IF prev[x].id = sessionId
       THEN [prev[x] EXCEPT !.artifacts =
               [y \in 1 .. Len(prev[x].artifacts) |->
                  IF prev[x].artifacts[y].id = artifactId
                    THEN [prev[x].artifacts[y] EXCEPT !.html = html]
                    ELSE prev[x].artifacts[y]]]
       ELSE prev[x]]

\* mutant: the final publish forgets the status
PatchFinal_HtmlOnly(prev, sessionId, artifactId, finalHtml) ==
  [x \in 1 .. Len(prev) |->
     IF prev[x].id = sessionId
       THEN [prev[x] EXCEPT !.artifacts =
               [y \in 1 .. Len(prev[x].artifacts) |->
                  IF prev[x].artifacts[y].id = artifactId
                    THEN [prev[x].artifacts[y] EXCEPT !.html = finalHtml]
                    ELSE prev[x].artifacts[y]]]
       ELSE prev[x]]

\* the final publish: {...art, html: finalHtml, status: finalHtml ? ... }
PatchFinal(prev, sessionId, artifactId, finalHtml) ==
  [x \in 1 .. Len(prev) |->
     IF prev[x].id = sessionId
       THEN [prev[x] EXCEPT !.artifacts =
               [y \in 1 .. Len(prev[x].artifacts) |->
                  IF prev[x].artifacts[y].id = artifactId
                    THEN [prev[x].artifacts[y] EXCEPT
                            !.html = finalHtml, !.status = FinalStatus(finalHtml)]
                    ELSE prev[x].artifacts[y]]]
       ELSE prev[x]]

\* mutant: the artifacts are filtered down to the one the variation replaces
PatchVariation_OnlyTarget(prev, sessionIndex, artifactIndex, html) ==
  [x \in 1 .. Len(prev) |->
     IF x - 1 = sessionIndex
       THEN [prev[x] EXCEPT !.artifacts =
               IF InRange(prev[x].artifacts, artifactIndex)
                 THEN << [At(prev[x].artifacts, artifactIndex) EXCEPT
                            !.html = html, !.status = "complete"] >>
                 ELSE << >>]
       ELSE prev[x]]

\* applyVariation: prev.map((sess, i) => i === currentSessionIndex ? {...sess,
\*   artifacts: sess.artifacts.map((art, j) => j === focusedArtifactIndex
\*     ? {...art, html, status: 'complete'} : art)} : sess)
PatchVariation(prev, sessionIndex, artifactIndex, html) ==
  [x \in 1 .. Len(prev) |->
     IF x - 1 = sessionIndex
       THEN [prev[x] EXCEPT !.artifacts =
               [y \in 1 .. Len(prev[x].artifacts) |->
                  IF y - 1 = artifactIndex
                    THEN [prev[x].artifacts[y] EXCEPT
                            !.html = html, !.status = "complete"]
                    ELSE prev[x].artifacts[y]]]
       ELSE prev[x]]

\* ------------------------------------------------------------------ state
VARIABLES
  sessions,              \* useState<Session[]>([])
  currentSessionIndex,   \* useState<number>(-1)
  focusedArtifactIndex,  \* useState<number | null>(null)
  isLoading,             \* useState<boolean>(false)
  drawerState,           \* [isOpen, mode, data]
  componentVariations,   \* useState<ComponentVariation[]>([])
  apiKey,                \* process.env.API_KEY is configured
  nextId,                \* the next value generateId() returns
  restored,              \* sessions restored from the vault so far
  batch,                 \* the handleSendMessage call in flight: [phase,
                         \* sessionId, styles]; dropped records that one of
                         \* its publishes found no session with its id
  gen,                   \* its generateArtifact tasks: ArtIdx -> [pc, acc]
  chunksLeft,            \* text increments the batch may still deliver
  varStream,             \* the handleGenerateVariations call in flight
  varRequests,           \* variation requests started so far
  exInput,               \* parseJsonStream: what the response stream carries
  exSent,                \* characters of it delivered in chunks so far
  exFrags,               \* chunks delivered so far
  buffer,                \* let buffer = ''
  yielded,               \* the objects yielded so far, in order
  exPc                   \* idle, reading, ended, or threw

vars ==
  << sessions, currentSessionIndex, focusedArtifactIndex, isLoading, drawerState,
     componentVariations, apiKey, nextId, restored, batch, gen, chunksLeft, varStream,
     varRequests, exInput, exSent, exFrags, buffer, yielded, exPc >>

appVars ==
  << sessions, currentSessionIndex, focusedArtifactIndex, isLoading, drawerState,
     componentVariations, apiKey, nextId, restored, batch, gen, chunksLeft, varStream,
     varRequests >>

exVars == << exInput, exSent, exFrags, buffer, yielded, exPc >>

idVars == << nextId, restored >>

navVars == << currentSessionIndex, focusedArtifactIndex >>

drawerVars == << drawerState, componentVariations >>

batchVars == << batch, gen, chunksLeft >>

varVars == << varStream, varRequests >>

\* ---------------------------------------------------------------- inputs
\* what the user may type
Prompts == { << >>, << " " >>, << " ", "p" >> }

\* direction responses of the generation service
StyleTexts ==
  { << >>,
    << "x" >>,
    << "[", "A", ",", "B", ",", "C", "]" >>,
    << "x", "[", "A", ",", "B", ",", "C", ",", "D", "]", "x" >>,
    << "[", "A", ",", "B", "]" >>,
    << "[", "A", ",", "B", ",", "C", "]", "x", "]" >>,
    << "[", "A", ",", "B", ",", "]" >>,
    << "]", "A", ",", "B", ",", "C", "[" >> }

\* text increments of a body stream
ChunkTexts == { << " ", "a" >> }

\* objects the extractor hands to handleGenerateVariations; an absent field
\* reads as falsy, like the empty string
EmittedObjects ==
  { [name |-> "V", html |-> << "v" >>], [name |-> "", html |-> << "w" >>] }

\* the vault as loaded from localStorage on mount
SavedVault ==
  { [id |-> << 0 >>, styleName |-> "Saved", html |-> << "s" >>,
     status |-> "complete", prompt |-> << "q" >>] }

IdleGen == [pc |-> "idle", acc |-> << >>]

NoBatch == [phase |-> "none", sessionId |-> 0, styles |-> << >>, dropped |-> FALSE]

HasSession(prev, sessionId) == \E x \in 1 .. Len(prev) : prev[x].id = sessionId

ClosedDrawer == [isOpen |-> FALSE, mode |-> "null", data |-> << >>]

AppInit ==
  /\ sessions = << >>
  /\ currentSessionIndex = -1
  /\ focusedArtifactIndex = Null
  /\ isLoading = FALSE
  /\ drawerState = ClosedDrawer
  /\ componentVariations = << >>
  /\ apiKey \in BOOLEAN
  /\ nextId = 1
  /\ restored = 0
  /\ batch = NoBatch
  /\ gen = [i \in ArtIdx |-> IdleGen]
  /\ chunksLeft = 0
  /\ varStream = "idle"
  /\ varRequests = 0

\* no stream is being read by parseJsonStream
NoInput == [items |-> << >>, framing |-> "none"]

ExIdle ==
  /\ exInput = NoInput
  /\ exSent = 0
  /\ exFrags = 0
  /\ buffer = << >>
  /\ yielded = << >>
  /\ exPc = "idle"

Init == AppInit /\ ExIdle

\* -------------------------------------------------------- handleSendMessage
\* the synchronous part, up to the first await (or the throw on a missing key)
HandleSendMessage(manualPrompt) ==
  LET trimmedInput == Trim(manualPrompt) IN
  IF trimmedInput = << >> \/ isLoading
    THEN UNCHANGED vars
    ELSE
      /\ nextId - 2 * restored <= MaxBatches
      /\ sessions' = Append(sessions, NewSession(nextId, trimmedInput))
      /\ currentSessionIndex' = Len(sessions)
      /\ focusedArtifactIndex' = Null
      /\ nextId' = nextId + 1
      /\ UNCHANGED restored
      /\ IF apiKey
           THEN /\ isLoading' = TRUE
                /\ batch' = [phase |-> "resolving", sessionId |-> nextId,
                              styles |-> << >>, dropped |-> FALSE]
           ELSE /\ isLoading' = FALSE
                /\ batch' = NoBatch
      /\ UNCHANGED << drawerVars, apiKey, exVars, gen, chunksLeft, varVars >>

\* mutant: the failure of the direction request is caught without the finally
ResolveFail_KeepsLoading ==
  /\ batch.phase = "resolving"
  /\ batch' = NoBatch
  /\ UNCHANGED << sessions, navVars, isLoading, drawerVars, apiKey, exVars, idVars, gen,
                  chunksLeft, varVars >>

\* mutant: the failed resolution marks the placeholders as failed
ResolveFail_MarksError ==
  /\ batch.phase = "resolving"
  /\ isLoading' = FALSE
  /\ batch' = NoBatch
  /\ sessions' = [x \in 1 .. Len(sessions) |->
                    IF sessions[x].id # batch.sessionId THEN sessions[x]
                    ELSE [sessions[x] EXCEPT !.artifacts =
                            [y \in 1 .. Len(sessions[x].artifacts) |->
                               [sessions[x].artifacts[y] EXCEPT !.status = "error"]]]]
  /\ UNCHANGED << navVars, drawerVars, apiKey, exVars, idVars, gen, chunksLeft,
                  varVars >>

\* ai.models.generateContent rejects: catch, finally setIsLoading(false)
ResolveFail ==
  /\ batch.phase = "resolving"
  /\ isLoading' = FALSE
  /\ batch' = NoBatch
  /\ UNCHANGED << sessions, navVars, drawerVars, apiKey, exVars, idVars, gen, chunksLeft,
                  varVars >>

\* generateContent returns: the labels are published and the N streaming
\* requests issued; a generator is "streaming" from its request on (the
\* continuation after await generateContentStream only starts the loop)
Resolve(text) ==
  /\ batch.phase = "resolving"
  /\ sessions' = PatchStyles(sessions, batch.sessionId, ResolveStyles(text))
  /\ batch' = [batch EXCEPT !.phase = "generating",
                             !.styles = ResolveStyles(text),
                             !.dropped = ~HasSession(sessions, batch.sessionId)]
  /\ gen' = [i \in ArtIdx |-> [pc |-> "streaming", acc |-> << >>]]
  /\ chunksLeft' = MaxChunks
  /\ UNCHANGED << navVars, isLoading, drawerVars, apiKey, exVars, idVars, varVars >>

\* mutant: the batch settles with the first generator (a race, not an all)
Settled_Any(g) == \E i \in ArtIdx : g[i].pc \in {"done", "failed"}

Settled(g) == \A i \in ArtIdx : g[i].pc \in {"done", "failed"}

\* await Promise.all(...) returns in the task that settles the last generator;
\* finally setIsLoading(false).  The outcome of each task stays on record, its
\* accumulated text does not.
SettleBatch(g, left, published) ==
  IF Settled(g)
    THEN /\ isLoading' = FALSE
         /\ batch' = NoBatch
         /\ gen' = [i \in ArtIdx |-> [pc |-> g[i].pc, acc |-> << >>]]
         /\ chunksLeft' = 0
    ELSE /\ gen' = g
         /\ chunksLeft' = left
         /\ batch' = [batch EXCEPT !.dropped =
                        @ \/ (published /\ ~HasSession(sessions, batch.sessionId))]
         /\ UNCHANGED isLoading

\* mutant: the rejection escapes generateArtifact and Promise.all rejects,
\* abandoning the siblings
GenFail_AbortsSiblings(i) ==
  /\ gen[i].pc = "streaming"
  /\ isLoading' = FALSE
  /\ batch' = NoBatch
  /\ gen' = [k \in ArtIdx |-> [pc |-> "failed", acc |-> << >>]]
  /\ chunksLeft' = 0
  /\ UNCHANGED << sessions, navVars, drawerVars, apiKey, exVars, idVars, varVars >>

\* mutant: the catch of generateArtifact publishes status error
GenFail_MarksError(i) ==
  /\ gen[i].pc = "streaming"
  /\ sessions' = PatchFinal(sessions, batch.sessionId, << batch.sessionId, i >>, << >>)
  /\ SettleBatch([gen EXCEPT ![i] = [pc |-> "failed", acc |-> << >>]], chunksLeft,
                 FALSE)
  /\ UNCHANGED << navVars, drawerVars, apiKey, exVars, idVars, varVars >>

\* the request rejects or the stream throws: caught inside generateArtifact
GenFail(i) ==
  /\ gen[i].pc = "streaming"
  /\ SettleBatch([gen EXCEPT ![i] = [pc |-> "failed", acc |-> << >>]], chunksLeft,
                 FALSE)
  /\ UNCHANGED << sessions, navVars, drawerVars, apiKey, exVars, idVars, varVars >>

\* mutant: the increment is published, not the accumulated text
GenChunk_PublishesIncrement(i, text) ==
  /\ gen[i].pc = "streaming"
  /\ chunksLeft > 0
  /\ chunksLeft' = chunksLeft - 1
  /\ gen' = [gen EXCEPT ![i].acc = gen[i].acc \o text]
  /\ sessions' = PatchHtml(sessions, batch.sessionId, << batch.sessionId, i >>, text)
  /\ batch' = [batch EXCEPT !.dropped = @ \/ ~HasSession(sessions, batch.sessionId)]
  /\ UNCHANGED << navVars, isLoading, drawerVars, apiKey, exVars, idVars, varVars >>

\* one chunk whose text is a string
GenChunk(i, text) ==
  /\ gen[i].pc = "streaming"
  /\ chunksLeft > 0
  /\ chunksLeft' = chunksLeft - 1
  /\ gen' = [gen EXCEPT ![i].acc = gen[i].acc \o text]
  /\ sessions' = PatchHtml(sessions, batch.sessionId, << batch.sessionId, i >>,
                           gen[i].acc \o text)
  /\ batch' = [batch EXCEPT !.dropped = @ \/ ~HasSession(sessions, batch.sessionId)]
  /\ UNCHANGED << navVars, isLoading, drawerVars, apiKey, exVars, idVars, varVars >>

\* the stream ends: normalize, publish the final state
GenEnd(i) ==
  /\ gen[i].pc = "streaming"
  /\ sessions' = PatchFinal(sessions, batch.sessionId, << batch.sessionId, i >>,
                            StripFences(gen[i].acc))
  /\ SettleBatch([gen EXCEPT ![i].pc = "done"], chunksLeft, TRUE)
  /\ UNCHANGED << navVars, drawerVars, apiKey, exVars, idVars, varVars >>

\* a chunk whose text is not a string: continue
GenSkip(i) ==
  /\ gen[i].pc = "streaming"
  /\ UNCHANGED vars

\* ------------------------------------------------------------- navigation
\* mutant: the reset forgets setCurrentSessionIndex(-1)
HandleGoHome_KeepsIndex ==
  /\ sessions' = << >>
  /\ focusedArtifactIndex' = Null
  /\ UNCHANGED << currentSessionIndex, isLoading, drawerVars, apiKey, exVars, idVars,
                  batchVars, varVars >>

\* mutant: the reset forgets setFocusedArtifactIndex(null)
HandleGoHome_KeepsFocus ==
  /\ sessions' = << >>
  /\ currentSessionIndex' = -1
  /\ UNCHANGED << focusedArtifactIndex, isLoading, drawerVars, apiKey, exVars, idVars,
                  batchVars, varVars >>

HandleGoHome ==
  /\ sessions' = << >>
  /\ currentSessionIndex' = -1
  /\ focusedArtifactIndex' = Null
  /\ UNCHANGED << isLoading, drawerVars, apiKey, exVars, idVars, batchVars, varVars >>

\* mutant: the restore forgets setFocusedArtifactIndex(0)
HandleRestoreFromVault_KeepsFocus(saved) ==
  /\ restored < MaxRestores
  /\ restored' = restored + 1
  /\ sessions' = Append(sessions,
       [id |-> nextId, prompt |-> saved.prompt,
        artifacts |-> << [id |-> << nextId + 1 >>, styleName |-> saved.styleName,
                          html |-> saved.html, status |-> saved.status] >>])
  /\ currentSessionIndex' = Len(sessions)
  /\ nextId' = nextId + 2
  /\ UNCHANGED << focusedArtifactIndex, isLoading, drawerVars, apiKey, exVars,
                  batchVars, varVars >>

HandleRestoreFromVault(saved) ==
  /\ restored < MaxRestores
  /\ restored' = restored + 1
  /\ sessions' = Append(sessions,
       [id |-> nextId, prompt |-> saved.prompt,
        artifacts |-> << [id |-> << nextId + 1 >>, styleName |-> saved.styleName,
                          html |-> saved.html, status |-> saved.status] >>])
  /\ currentSessionIndex' = Len(sessions)
  /\ focusedArtifactIndex' = 0
  /\ nextId' = nextId + 2
  /\ UNCHANGED << isLoading, drawerVars, apiKey, exVars, batchVars, varVars >>

HasCurrent == InRange(sessions, currentSessionIndex)

CurrentArtifacts == At(sessions, currentSessionIndex).artifacts

\* the cards that take a click: those of the active session (every session's
\* cards are rendered; the style sheet, which is not part of the sources,
\* decides which of them can be reached)
Clickable(aIndex) ==
  /\ HasCurrent
  /\ aIndex < Len(CurrentArtifacts)

\* an ArtifactCard is clicked: setFocusedArtifactIndex(aIndex)
Focus(aIndex) ==
  /\ Clickable(aIndex)
  /\ focusedArtifactIndex' = aIndex
  /\ UNCHANGED << sessions, currentSessionIndex, isLoading, drawerVars, apiKey, exVars,
                  idVars, batchVars, varVars >>

\* the Grid View button
Unfocus ==
  /\ focusedArtifactIndex # Null
  /\ focusedArtifactIndex' = Null
  /\ UNCHANGED << sessions, currentSessionIndex, isLoading, drawerVars, apiKey, exVars,
                  idVars, batchVars, varVars >>

hasStarted == Len(sessions) > 0 \/ isLoading

\* mutant: the right handle is rendered whenever the app has started
canGoForward_Started == Len(sessions) > 0 \/ isLoading

canGoForward ==
  /\ hasStarted
  /\ IF focusedArtifactIndex # Null
       THEN focusedArtifactIndex <
              (IF HasCurrent THEN Len(CurrentArtifacts) ELSE 0) - 1
       ELSE currentSessionIndex < Len(sessions) - 1

canGoBack ==
  /\ hasStarted
  /\ IF focusedArtifactIndex # Null
       THEN focusedArtifactIndex > 0
       ELSE currentSessionIndex > 0

\* the right handle, rendered when canGoForward
nextItem ==
  /\ canGoForward
  /\ IF focusedArtifactIndex # Null
       THEN /\ focusedArtifactIndex' =
                 IF focusedArtifactIndex < 2 THEN focusedArtifactIndex + 1
                 ELSE focusedArtifactIndex
            /\ UNCHANGED currentSessionIndex
       ELSE /\ currentSessionIndex' =
                 IF currentSessionIndex < Len(sessions) - 1
                   THEN currentSessionIndex + 1 ELSE currentSessionIndex
            /\ UNCHANGED focusedArtifactIndex
  /\ UNCHANGED << sessions, isLoading, drawerVars, apiKey, exVars, idVars, batchVars,
                  varVars >>

\* mutant: past the first artifact, retreat goes on to the previous session
prevItem_CrossesSessions ==
  /\ hasStarted
  /\ focusedArtifactIndex # Null
  /\ IF focusedArtifactIndex > 0
       THEN /\ focusedArtifactIndex' = focusedArtifactIndex - 1
            /\ UNCHANGED currentSessionIndex
       ELSE /\ currentSessionIndex > 0
            /\ currentSessionIndex' = currentSessionIndex - 1
            /\ UNCHANGED focusedArtifactIndex
  /\ UNCHANGED << sessions, isLoading, drawerVars, apiKey, exVars, idVars, batchVars,
                  varVars >>

\* the left handle, rendered when canGoBack
prevItem ==
  /\ canGoBack
  /\ IF focusedArtifactIndex # Null
       THEN /\ focusedArtifactIndex' =
                 IF focusedArtifactIndex > 0 THEN focusedArtifactIndex - 1
                 ELSE focusedArtifactIndex
            /\ UNCHANGED currentSessionIndex
       ELSE /\ currentSessionIndex' =
                 IF currentSessionIndex > 0
                   THEN currentSessionIndex - 1 ELSE currentSessionIndex
            /\ UNCHANGED focusedArtifactIndex
  /\ UNCHANGED << sessions, isLoading, drawerVars, apiKey, exVars, idVars, batchVars,
                  varVars >>

\* --------------------------------------------------------------- variations
\* the Variations button (rendered while an artifact is focused, disabled while
\* loading); the synchronous part, up to the first await or the throw
HandleGenerateVariationsWithin(maxRequests) ==
  /\ focusedArtifactIndex # Null
  /\ ~isLoading
  /\ IF ~HasCurrent
       THEN UNCHANGED vars
       ELSE
         /\ varRequests < maxRequests
         /\ varRequests' = varRequests + 1
         /\ componentVariations' = << >>
         /\ IF InRange(CurrentArtifacts, focusedArtifactIndex)
              THEN /\ drawerState' =
                        [isOpen |-> TRUE, mode |-> "variations",
                         data |-> At(CurrentArtifacts, focusedArtifactIndex).id]
                   /\ IF apiKey
                        THEN /\ isLoading' = TRUE
                             /\ varStream' = "streaming"
                        ELSE /\ isLoading' = FALSE
                             /\ varStream' = "idle"
              \* currentArtifact.id throws outside the try: nothing clears the flag
              ELSE /\ isLoading' = TRUE
                   /\ varStream' = "idle"
                   /\ UNCHANGED drawerState
         /\ UNCHANGED << sessions, navVars, apiKey, exVars, idVars, batchVars >>

HandleGenerateVariations == HandleGenerateVariationsWithin(MaxVarRequests)

\* the request rejects or the stream throws: catch, finally setIsLoading(false)
VarFail ==
  /\ varStream = "streaming"
  /\ varStream' = "idle"
  /\ isLoading' = FALSE
  /\ UNCHANGED << sessions, navVars, drawerVars, apiKey, exVars, idVars, batchVars,
                  varRequests >>

\* mutant: the variation is put in front of the list
AddVariation_Prepends(prev, variation) ==
  IF variation.name # "" /\ variation.html # << >>
    THEN << variation >> \o prev
    ELSE prev

\* if (variation.name && variation.html) setComponentVariations(prev => [...])
AddVariation(prev, variation) ==
  IF variation.name # "" /\ variation.html # << >>
    THEN Append(prev, variation)
    ELSE prev

\* parseJsonStream yields one object
VarEmitWithin(variation, maxListed) ==
  /\ varStream = "streaming"
  /\ Len(componentVariations) < maxListed
  /\ componentVariations' = AddVariation(componentVariations, variation)
  /\ UNCHANGED << sessions, navVars, isLoading, drawerState, apiKey, exVars, idVars,
                  batchVars, varVars >>

VarEmit(variation) == VarEmitWithin(variation, MaxEmits)

\* the stream ends: finally setIsLoading(false)
VarEnd ==
  /\ varStream = "streaming"
  /\ varStream' = "idle"
  /\ isLoading' = FALSE
  /\ UNCHANGED << sessions, navVars, drawerVars, apiKey, exVars, idVars, batchVars,
                  varRequests >>

\* mutant: the variation view stays open
applyVariation_LeavesViewOpen(html) ==
  /\ drawerState.isOpen
  /\ drawerState.mode = "variations"
  /\ \E k \in 1 .. Len(componentVariations) : componentVariations[k].html = html
  /\ IF focusedArtifactIndex = Null
       THEN UNCHANGED vars
       ELSE /\ sessions' = PatchVariation(sessions, currentSessionIndex,
                                          focusedArtifactIndex, html)
            /\ UNCHANGED << navVars, isLoading, drawerVars, apiKey, exVars,
                            idVars, batchVars, varVars >>

\* a card of the variation list is clicked
applyVariation(html) ==
  /\ drawerState.isOpen
  /\ drawerState.mode = "variations"
  /\ \E k \in 1 .. Len(componentVariations) : componentVariations[k].html = html
  /\ IF focusedArtifactIndex = Null
       THEN UNCHANGED vars
       ELSE /\ sessions' = PatchVariation(sessions, currentSessionIndex,
                                          focusedArtifactIndex, html)
            /\ drawerState' = [drawerState EXCEPT !.isOpen = FALSE]
            /\ UNCHANGED << navVars, isLoading, componentVariations, apiKey, exVars,
                            idVars, batchVars, varVars >>

\* SideDrawer onClose
CloseDrawer ==
  /\ drawerState.isOpen
  /\ drawerState' = [drawerState EXCEPT !.isOpen = FALSE]
  /\ UNCHANGED << sessions, navVars, isLoading, componentVariations, apiKey, exVars,
                  idVars, batchVars, varVars >>

\* ------------------------------------------------------------ specification
Next ==
  \/ \E p \in Prompts : HandleSendMessage(p)
  \/ ResolveFail
  \/ \E t \in StyleTexts : Resolve(t)
  \/ \E i \in ArtIdx : GenFail(i)
  \/ \E i \in ArtIdx : \E t \in ChunkTexts : GenChunk(i, t)
  \/ \E i \in ArtIdx : GenSkip(i)
  \/ \E i \in ArtIdx : GenEnd(i)
  \/ HandleGoHome
  \/ \E saved \in SavedVault : HandleRestoreFromVault(saved)
  \/ \E a \in ArtIdx : Focus(a)
  \/ Unfocus
  \/ nextItem
  \/ prevItem
  \/ HandleGenerateVariations
  \/ VarFail
  \/ \E v \in EmittedObjects : VarEmit(v)
  \/ VarEnd
  \/ \E v \in EmittedObjects : applyVariation(v.html)
  \/ CloseDrawer

Spec == Init /\ [][Next]_vars

\* ================================================================
\* parseJsonStream: complete JSON objects out of a chunked text stream
\* ================================================================
\* Texts are sequences of one-character strings.  JSON values are tagged
\* tuples: a string, a number (its digits) and an object (its members in
\* order, each a pair of a key and a value).
Q == "\""

Str(cs) == << "str", cs >>

Num(ds) == << "num", ds >>

Obj(ms) == << "obj", ms >>

Digits == {"1"}

\* JSON.stringify of a value (what the model's response stream carries)
RECURSIVE Stringify(_)
RECURSIVE StringifyMembers(_)
Stringify(v) ==
  IF v[1] = "str" THEN << Q >> \o v[2] \o << Q >>
  ELSE IF v[1] = "num" THEN v[2]
  ELSE << "{" >> \o StringifyMembers(v[2]) \o << "}" >>

StringifyMembers(ms) ==
  IF ms = << >> THEN << >>
  ELSE << Q >> \o ms[1][1] \o << Q, ":" >> \o Stringify(ms[1][2])
       \o (IF Len(ms) > 1 THEN << "," >> \o StringifyMembers(Tail(ms)) ELSE << >>)

\* buffer.indexOf(c, from)
IndexOf(s, c, from) ==
  LET hits == {i \in from .. (Len(s) - 1) : At(s, i) = c}
  IN  IF hits = {} THEN -1 ELSE Min(hits)

\* JSON.parse, on texts without white space, escapes or arrays: the result
\* of parsing a value at position p, or Fail where JSON.parse throws
Fail == [ok |-> FALSE, pos |-> 0, val |-> << >>]

ParseString(s, p) ==
  LET q == IndexOf(s, Q, p + 1)
  IN  IF q = -1 THEN Fail
      ELSE [ok |-> TRUE, pos |-> q + 1, val |-> Str(SubSeq(s, p + 2, q))]

RECURSIVE DigitsEnd(_, _)
DigitsEnd(s, p) ==
  IF p < Len(s) /\ At(s, p) \in Digits THEN DigitsEnd(s, p + 1) ELSE p

ParseNumber(s, p) ==
  [ok |-> TRUE, pos |-> DigitsEnd(s, p), val |-> Num(SubSeq(s, p + 1, DigitsEnd(s, p)))]

RECURSIVE ParseValue(_, _)
RECURSIVE ParseMembers(_, _, _)
ParseObject(s, p) ==
  IF p + 1 < Len(s) /\ At(s, p + 1) = "}"
    THEN [ok |-> TRUE, pos |-> p + 2, val |-> Obj(<< >>)]
    ELSE ParseMembers(s, p + 1, << >>)

ParseValue(s, p) ==
  IF p >= Len(s) THEN Fail
  ELSE IF At(s, p) = Q THEN ParseString(s, p)
  ELSE IF At(s, p) \in Digits THEN ParseNumber(s, p)
  ELSE IF At(s, p) = "{" THEN ParseObject(s, p)
  ELSE Fail

ParseMembers(s, p, acc) ==
  IF p >= Len(s) \/ At(s, p) # Q THEN Fail
  ELSE LET k == ParseString(s, p)
       IN  IF ~k.ok \/ k.pos >= Len(s) \/ At(s, k.pos) # ":" THEN Fail
           ELSE LET v == ParseValue(s, k.pos + 1)
                    ms == Append(acc, << k.val[2], v.val >>)
                IN  IF ~v.ok \/ v.pos >= Len(s) THEN Fail
                    ELSE IF At(s, v.pos) = "," THEN ParseMembers(s, v.pos + 1, ms)
                    ELSE IF At(s, v.pos) = "}"
                      THEN [ok |-> TRUE, pos |-> v.pos + 1, val |-> Obj(ms)]
                    ELSE Fail

JsonParse(s) ==
  LET r == ParseValue(s, 0)
  IN  IF r.ok /\ r.pos = Len(s) THEN r ELSE Fail

\* for (let i = start; i < buffer.length; i++): the index at which the brace
\* count is back to zero, or -1; braces inside string literals count too
RECURSIVE MatchEnd(_, _, _, _)
MatchEnd(buf, start, i, braceCount) ==
  IF i >= Len(buf) THEN -1
  ELSE LET c == IF At(buf, i) = "{" THEN braceCount + 1
                ELSE IF At(buf, i) = "}" THEN braceCount - 1
                ELSE braceCount
       IN  IF c = 0 /\ i > start THEN i ELSE MatchEnd(buf, start, i + 1, c)

\* mutant: what follows the yielded object in the buffer is thrown away
Rest_Empty(buf, end) == << >>

\* buffer = buffer.substring(end + 1)
Rest(buf, end) == Drop(buf, end + 1)

\* mutant: one extraction attempt per chunk (an if, not a while)
RECURSIVE Extract_Once(_, _, _)
Extract_Once(buf, start, out) ==
  IF start = -1 THEN [buffer |-> buf, out |-> out, threw |-> FALSE]
  ELSE LET end == MatchEnd(buf, start, start, 0)
           r == JsonParse(SubSeq(buf, start + 1, end + 1))
       IN  IF end = -1 \/ ~r.ok
             THEN [buffer |-> buf, out |-> out, threw |-> FALSE]
             ELSE [buffer |-> Rest(buf, end), out |-> Append(out, r.val),
                   threw |-> FALSE]

\* mutant: after a parse failure the search continues behind the candidate
RECURSIVE Extract_SkipsSpan(_, _, _)
Extract_SkipsSpan(buf, start, out) ==
  IF start = -1 THEN [buffer |-> buf, out |-> out, threw |-> FALSE]
  ELSE LET end == MatchEnd(buf, start, start, 0)
           r == JsonParse(SubSeq(buf, start + 1, end + 1))
       IN  IF end = -1 THEN [buffer |-> buf, out |-> out, threw |-> FALSE]
           ELSE IF r.ok
             THEN Extract_SkipsSpan(Rest(buf, end), IndexOf(Rest(buf, end), "{", 0),
                                    Append(out, r.val))
             ELSE Extract_SkipsSpan(buf, IndexOf(buf, "{", end + 1), out)

\* while (start !== -1) { ... }: the buffer left, the objects yielded, and
\* whether an exception left the loop (the catch keeps every one inside)
RECURSIVE Extract(_, _, _)
Extract(buf, start, out) ==
  IF start = -1 THEN [buffer |-> buf, out |-> out, threw |-> FALSE]
  ELSE LET end == MatchEnd(buf, start, start, 0)
           r == JsonParse(SubSeq(buf, start + 1, end + 1))
       IN  IF end = -1 THEN [buffer |-> buf, out |-> out, threw |-> FALSE]
           ELSE IF r.ok
             THEN Extract(Rest(buf, end), IndexOf(Rest(buf, end), "{", 0),
                          Append(out, r.val))
             ELSE Extract(buf, IndexOf(buf, "{", start + 1), out)

\* ----------------------------------------------------------- the streams
ObjAB == Obj(<< << << "a" >>, Str(<< "b" >>) >>, << << "b" >>, Num(<< "1" >>) >> >>)

ObjNested == Obj(<< << << "a" >>, Obj(<< << << "b" >>, Num(<< "1" >>) >> >>) >> >>)

ObjEmpty == Obj(<< >>)

ObjBraceValue == Obj(<< << << "a" >>, Str(<< "}" >>) >> >>)

ObjBraceKey == Obj(<< << << "{" >>, Num(<< "1" >>) >> >>)

Objects == {ObjAB, ObjNested, ObjEmpty, ObjBraceValue, ObjBraceKey}

\* a span with balanced braces that is not JSON
Junk == << "junk", << "{", "a", "}" >> >>

ItemText(item) == IF item[1] = "junk" THEN item[2] ELSE Stringify(item)

SeqsUpTo(S, n) == UNION {[1 .. k -> S] : k \in 0 .. n}

\* a serialized array of objects, or items one after the other
Inputs ==
  {[items |-> its, framing |-> "array"] : its \in SeqsUpTo(Objects, MaxItems)}
    \cup
  {[items |-> its, framing |-> "concat"] :
     its \in SeqsUpTo(Objects \cup {Junk}, MaxItems)}

RECURSIVE Joined(_, _)
Joined(items, sep) ==
  IF items = << >> THEN << >>
  ELSE ItemText(items[1])
       \o (IF Len(items) > 1 THEN sep \o Joined(Tail(items), sep) ELSE << >>)

TextOf(input) ==
  IF input.framing = "array"
    THEN << "[" >> \o Joined(input.items, << "," >>) \o << "]" >>
    ELSE Joined(input.items, << >>)

InitExtract ==
  /\ AppInit
  /\ exInput \in Inputs
  /\ exSent = 0
  /\ exFrags = 0
  /\ buffer = << >>
  /\ yielded = << >>
  /\ exPc = "reading"

\* one chunk of k characters: buffer += text, then the extraction loop
ExChunk(k) ==
  /\ exPc = "reading"
  /\ exFrags < MaxFrags
  /\ exSent + k <= Len(TextOf(exInput))
  /\ LET text == SubSeq(TextOf(exInput), exSent + 1, exSent + k)
         b == buffer \o text
         r == Extract(b, IndexOf(b, "{", 0), yielded)
     IN  /\ buffer' = r.buffer
         /\ yielded' = r.out
         /\ exPc' = IF r.threw THEN "threw" ELSE "reading"
  /\ exSent' = exSent + k
  /\ exFrags' = exFrags + 1
  /\ UNCHANGED << appVars, exInput >>

\* if (typeof text !== 'string') continue
ExChunkNoText ==
  /\ exPc = "reading"
  /\ exFrags < MaxFrags
  /\ exFrags' = exFrags + 1
  /\ UNCHANGED << appVars, exInput, exSent, buffer, yielded, exPc >>

\* the response stream ends, after all of the text or before: the generator
\* returns and the buffer is gone
ExEnd ==
  /\ exPc = "reading"
  /\ exPc' = "ended"
  /\ buffer' = << >>
  /\ UNCHANGED << appVars, exInput, exSent, exFrags, yielded >>

NextExtract ==
  \/ \E k \in 0 .. (Len(TextOf(exInput)) - exSent) : ExChunk(k)
  \/ ExChunkNoText
  \/ ExEnd

SpecExtract == InitExtract /\ [][NextExtract]_vars

\* ================================================================
\* one batch, its streams carrying different texts
\* ================================================================
\* text increments of a body stream: white space, text, a code fence
StreamTexts == { << " " >>, << "a" >>, << "b" >>, Fence }

NextStream ==
  \/ HandleSendMessage(<< "p" >>)
  \/ Resolve(<< >>)
  \/ \E i \in ArtIdx : GenFail(i)
  \/ \E i \in ArtIdx : \E t \in StreamTexts : GenChunk(i, t)
  \/ \E i \in ArtIdx : GenSkip(i)
  \/ \E i \in ArtIdx : GenEnd(i)
  \/ HandleGoHome

SpecStream == Init /\ [][NextStream]_vars

\* ================================================================
\* the variation view alone, on a restored artifact
\* ================================================================
\* objects the extractor yields: two well formed, one without a name, one
\* without html
VariationObjects ==
  { [name |-> "V", html |-> << "v" >>], [name |-> "U", html |-> << "u" >>],
    [name |-> "", html |-> << "w" >>], [name |-> "X", html |-> << >>] }

NextView ==
  \/ \E saved \in SavedVault : HandleRestoreFromVault(saved)
  \/ HandleGoHome
  \/ \E a \in ArtIdx : Focus(a)
  \/ Unfocus
  \/ HandleGenerateVariationsWithin(MaxViewRequests)
  \/ VarFail
  \/ \E v \in VariationObjects : VarEmitWithin(v, MaxListed)
  \/ VarEnd
  \/ \E v \in VariationObjects : applyVariation(v.html)
  \/ CloseDrawer

SpecView == Init /\ [][NextView]_vars

\* ------------------------------------------------------------------ claims
\* a publish of generator i: one increment, or the final state
Publish(i) == (\E t \in ChunkTexts : GenChunk(i, t)) \/ GenEnd(i)

\* the html a publish of generator i may carry
PublishedTexts(i) ==
  {gen[i].acc \o t : t \in ChunkTexts} \cup {StripFences(gen[i].acc)}

BatchArtifactId(i) == << batch.sessionId, i >>

\* C1: a publish of generator i changes, in the session with the batch's id,
\* only the artifact with generator i's id, whose html becomes the published
\* text; every other artifact of that session and every other session is left
\* exactly as it was, so publishes to different artifacts never clobber each
\* other.
C1_PatchIsolation ==
  [][\A i \in ArtIdx :
       Publish(i) =>
         /\ Len(sessions') = Len(sessions)
         /\ \A x \in 1 .. Len(sessions) :
              /\ sessions'[x].id = sessions[x].id
              /\ sessions'[x].prompt = sessions[x].prompt
              /\ Len(sessions'[x].artifacts) = Len(sessions[x].artifacts)
              /\ \A y \in 1 .. Len(sessions[x].artifacts) :
                   IF /\ sessions[x].id = batch.sessionId
                      /\ sessions[x].artifacts[y].id = BatchArtifactId(i)
                     THEN /\ sessions'[x].artifacts[y].html \in PublishedTexts(i)
                          /\ sessions'[x].artifacts[y].id = BatchArtifactId(i)
                          /\ sessions'[x].artifacts[y].styleName =
                               sessions[x].artifacts[y].styleName
                     ELSE sessions'[x].artifacts[y] = sessions[x].artifacts[y]]_vars

\* two generators of one batch have both published into the session
C1_Witness ==
  /\ batch.phase = "generating"
  /\ gen[0].pc = "streaming"
  /\ gen[1].pc = "streaming"
  /\ \E x \in 1 .. Len(sessions) :
       /\ sessions[x].id = batch.sessionId
       /\ sessions[x].artifacts[1].html = gen[0].acc
       /\ sessions[x].artifacts[2].html = gen[1].acc
       /\ gen[0].acc # << >>
       /\ gen[1].acc # << >>
       /\ sessions[x].artifacts[3].html = << >>

Orphaned == batch.phase # "none" /\ ~HasSession(sessions, batch.sessionId)

\* any state publish of the batch: the style names, an increment, a final state
BatchPublish == (\E t \in StyleTexts : Resolve(t)) \/ \E i \in ArtIdx : Publish(i)

\* C2: once a reset has removed the session of the batch in flight, every
\* publish of that batch leaves sessions, currentSessionIndex and
\* focusedArtifactIndex unchanged, and no step brings the session back.
C2_OrphanDrop ==
  [][Orphaned =>
       /\ ~HasSession(sessions', batch.sessionId)
       /\ BatchPublish =>
            UNCHANGED << sessions, currentSessionIndex, focusedArtifactIndex >>]_vars

\* a publish of the orphaned batch was dropped while a later session exists
C2_Witness ==
  /\ Orphaned
  /\ batch.dropped
  /\ gen[0].acc # << >>
  /\ Len(sessions) = 1
  /\ sessions[1].id > batch.sessionId

ApplyStep == \E v \in EmittedObjects : applyVariation(v.html)

\* C3: the status of an artifact changes only streaming -> complete or
\* streaming -> error, except that applying a variation sets it to complete.
C3_StatusForward ==
  [][\A x \in 1 .. Len(sessions) :
       (x <= Len(sessions') /\ sessions'[x].id = sessions[x].id) =>
         \A y \in 1 .. Len(sessions[x].artifacts) :
           LET old == sessions[x].artifacts[y].status
               new == sessions'[x].artifacts[y].status
           IN  old # new =>
                 \/ old = "streaming" /\ new \in {"complete", "error"}
                 \/ ApplyStep /\ new = "complete"]_vars

\* the step in which the batch in phase 2 clears the loading flag
SettleStep == batch.phase = "generating" /\ isLoading /\ ~isLoading'

\* C4 as claimed: when loading becomes false after phase 2 has started, every
\* artifact of the batch has status complete or error.
C4_Original ==
  [][SettleStep =>
       \A x \in 1 .. Len(sessions') :
         sessions'[x].id = batch.sessionId =>
           \A y \in 1 .. Len(sessions'[x].artifacts) :
             sessions'[x].artifacts[y].status \in {"complete", "error"}]_vars

\* C4 amended: loading is true for as long as a batch is in flight; the step
\* that clears it in phase 2 is the end or the failure of the last generator
\* still running, every other generator having ended or failed before; and at
\* that step every artifact of the batch whose stream ended normally has
\* status complete or error (an artifact whose stream failed may still be
\* streaming).
C4_LoadingUntilSettled ==
  [][/\ batch'.phase # "none" => isLoading'
     /\ SettleStep =>
          \E j \in ArtIdx :
            /\ GenEnd(j) \/ GenFail(j)
            /\ \A i \in ArtIdx \ {j} : gen[i].pc \in {"done", "failed"}
            /\ \A x \in 1 .. Len(sessions') :
                 sessions'[x].id = batch.sessionId =>
                   \A i \in ArtIdx :
                     (gen[i].pc = "done" \/ (i = j /\ GenEnd(j))) =>
                       At(sessions'[x].artifacts, i).status \in
                         {"complete", "error"}]_vars

\* the batch has settled with one artifact complete and one stalled in
\* streaming by a stream that failed after an increment
C4_Witness ==
  /\ ~isLoading
  /\ batch.phase = "none"
  /\ \E x \in 1 .. Len(sessions) :
       /\ Len(sessions[x].artifacts) = N
       /\ sessions[x].artifacts[1].status = "streaming"
       /\ sessions[x].artifacts[1].html # << >>
       /\ sessions[x].artifacts[2].status = "complete"
       /\ sessions[x].artifacts[3].status = "error"

\* C5: the failure of one generator changes neither a sibling generator nor
\* the sessions; and a generator whose stream ends normally after a sibling
\* has failed still publishes its own normalized text, with status complete
\* when that text is non-empty and error when it is empty.
C5_SiblingIndependence ==
  [][\A i \in ArtIdx :
       /\ (GenFail(i) /\ \E k \in ArtIdx \ {i} : gen[k].pc = "streaming") =>
            /\ \A j \in ArtIdx \ {i} : gen'[j] = gen[j]
            /\ sessions' = sessions
            /\ isLoading' = isLoading
       /\ (GenEnd(i) /\ \E k \in ArtIdx \ {i} : gen[k].pc = "failed") =>
            \A x \in 1 .. Len(sessions') :
              sessions'[x].id = batch.sessionId =>
                LET art == At(sessions'[x].artifacts, i)
                    own == StripFences(gen[i].acc)
                IN  /\ art.html = own
                    /\ art.status = IF own = << >> THEN "error" ELSE "complete"]_vars

\* generator 0 has failed and generator 1 has then completed its artifact
C5_Witness ==
  /\ batch.phase = "generating"
  /\ gen[0].pc = "failed"
  /\ gen[1].pc = "done"
  /\ gen[2].pc = "streaming"
  /\ \E x \in 1 .. Len(sessions) :
       /\ sessions[x].id = batch.sessionId
       /\ sessions[x].artifacts[1].status = "streaming"
       /\ sessions[x].artifacts[2].status = "complete"
       /\ sessions[x].artifacts[2].html = << "a" >>

\* C6: a generate request with a non-empty trimmed prompt, issued while not
\* loading, appends exactly one session, holding exactly 3 artifacts with
\* status streaming, empty html and styleName "Designing...", makes it the
\* current session (the last index) and clears the focus.
C6_GenerateAppends ==
  [][\A p \in Prompts :
       (HandleSendMessage(p) /\ Trim(p) # << >> /\ ~isLoading) =>
         /\ Len(sessions') = Len(sessions) + 1
         /\ SubSeq(sessions', 1, Len(sessions)) = sessions
         /\ LET new == sessions'[Len(sessions')] IN
              /\ \A x \in 1 .. Len(sessions) : sessions[x].id # new.id
              /\ new.prompt = Trim(p)
              /\ Len(new.artifacts) = 3
              /\ \A y \in 1 .. Len(new.artifacts) :
                   /\ new.artifacts[y].status = "streaming"
                   /\ new.artifacts[y].html = << >>
                   /\ new.artifacts[y].styleName = "Designing..."
         /\ currentSessionIndex' = Len(sessions') - 1
         /\ focusedArtifactIndex' = Null]_vars

\* a generate request issued with a session in history and an artifact focused
\* has appended the placeholder session, made it current and cleared the focus
C6_Witness ==
  /\ batch.phase = "resolving"
  /\ Len(sessions) = 2
  /\ sessions[2].id = batch.sessionId
  /\ \A y \in 1 .. 3 : sessions[2].artifacts[y].status = "streaming"
  /\ currentSessionIndex = 1
  /\ focusedArtifactIndex = Null
  /\ componentVariations # << >>

\* the last stream of a batch ends, every stream of the batch having ended
\* normally with non-empty normalized text
AllStreamsSucceed(j) ==
  /\ SettleStep
  /\ GenEnd(j)
  /\ \A i \in ArtIdx \ {j} : gen[i].pc = "done"
  /\ \A i \in ArtIdx : StripFences(gen[i].acc) # << >>

LabelArrays(text) ==
  {sp \in (1 .. Len(text)) \X (1 .. Len(text)) :
     /\ sp[1] < sp[2]
     /\ IsJsonArray(SubSeq(text, sp[1], sp[2]))
     /\ sp[2] - sp[1] + 1 >= 2 * N + 1}

\* the first of them
FirstLabelArray(text) ==
  LET from == Min({sp[1] : sp \in LabelArrays(text)})
      to == Min({sp[2] : sp \in {q \in LabelArrays(text) : q[1] = from}})
  IN  SubSeq(text, from, to)

\* C8: after direction resolution the style names of the placeholders are the
\* first 3 labels of the JSON array of at least 3 labels the response text
\* contains, and the fallback labels when it contains none.
C8_DirectionLabels ==
  [][\A t \in StyleTexts :
       Resolve(t) =>
         \A x \in 1 .. Len(sessions') :
           sessions'[x].id = batch.sessionId =>
             \A i \in ArtIdx :
               At(sessions'[x].artifacts, i).styleName =
                 IF LabelArrays(t) = {}
                   THEN At(FallbackStyles, i)
                   ELSE At(JsonArrayOf(FirstLabelArray(t)), i)]_vars

\* ---------------------------------------------------------------- C9, C10
NoBraces(cs) == \A x \in 1 .. Len(cs) : cs[x] \notin {"{", "}"}

\* no string that is a member's value holds a brace
RECURSIVE ValuesBraceFree(_)
ValuesBraceFree(v) ==
  IF v[1] = "str" THEN NoBraces(v[2])
  ELSE IF v[1] = "num" THEN TRUE
  ELSE \A x \in 1 .. Len(v[2]) : ValuesBraceFree(v[2][x][2])

\* no string at all, key or value, holds a brace
RECURSIVE StringsBraceFree(_)
StringsBraceFree(v) ==
  IF v[1] = "str" THEN NoBraces(v[2])
  ELSE IF v[1] = "num" THEN TRUE
  ELSE \A x \in 1 .. Len(v[2]) :
         NoBraces(v[2][x][1]) /\ StringsBraceFree(v[2][x][2])

ArrayRead ==
  /\ exPc = "ended"
  /\ exInput.framing = "array"
  /\ exSent = Len(TextOf(exInput))

\* C9 as stated: a serialized array of objects whose string values hold no
\* brace, read to its end in any chunks, yields exactly its objects in order.
C9_Original ==
  (ArrayRead /\ \A x \in 1 .. Len(exInput.items) : ValuesBraceFree(exInput.items[x]))
    => yielded = exInput.items

\* C9: a serialized array of objects none of whose strings, keys included,
\* holds a brace, read to its end in any chunks, yields exactly its objects
\* in order, each once.
C9_Completeness ==
  (ArrayRead /\ \A x \in 1 .. Len(exInput.items) : StringsBraceFree(exInput.items[x]))
    => yielded = exInput.items

C9_Witness ==
  /\ ArrayRead
  /\ exFrags = MaxFrags
  /\ exInput.items = << ObjAB, ObjNested >>
  /\ yielded = exInput.items

\* the objects of the stream, Junk left out
IsObject(item) == item # Junk

RECURSIVE ClosedObjects(_, _, _, _)
\* the objects among items whose closing brace lies within the first sent
\* characters, the first item starting at offset from, sep characters apart
ClosedObjects(items, from, sep, sent) ==
  IF items = << >> THEN << >>
  ELSE LET to == from + Len(ItemText(items[1]))
       IN  (IF IsObject(items[1]) /\ to <= sent THEN << items[1] >> ELSE << >>)
           \o ClosedObjects(Tail(items), to + sep, sep, sent)

Closed ==
  IF exInput.framing = "array"
    THEN ClosedObjects(exInput.items, 1, 1, exSent)
    ELSE ClosedObjects(exInput.items, 0, 0, exSent)

\* C10 as stated: after every chunk, and at the end of the stream, the
\* objects yielded are exactly those whose closing brace has arrived, and
\* no error was raised.
C10_Original ==
  exPc # "idle" => (yielded = Closed /\ exPc # "threw")

\* C10: the same, for streams none of whose strings holds a brace.
C10_Timing ==
  (exPc # "idle" /\ \A x \in 1 .. Len(exInput.items) :
                      IsObject(exInput.items[x]) => StringsBraceFree(exInput.items[x]))
    => (yielded = Closed /\ exPc # "threw")

\* the first object yielded, a malformed span skipped, the second object
\* cut off by the end of the stream
C10_Witness ==
  /\ exPc = "ended"
  /\ exInput = [items |-> << ObjAB, ObjNested >>, framing |-> "concat"]
  /\ exSent > Len(ItemText(ObjAB))
  /\ exSent < Len(TextOf(exInput))
  /\ yielded = << ObjAB >>

\* --------------------------------------------------------------- C11, C12
\* the artifact of generator i in the session of the batch, in history h
BatchArtifact(h, i) ==
  LET x == CHOOSE x \in 1 .. Len(h) : h[x].id = batch.sessionId
  IN  At(h[x].artifacts, i)

\* C11: when the stream of a generator ends without failure, its artifact's
\* html becomes the normalized accumulated text, and its status becomes
\* complete if that text is non-empty and error if it is empty.
C11_Finalization ==
  [][\A i \in ArtIdx :
       (GenEnd(i) /\ HasSession(sessions, batch.sessionId)) =>
         LET normalized == StripFences(gen[i].acc)
             art == BatchArtifact(sessions', i)
         IN  /\ art.html = normalized
             /\ art.status \in {"complete", "error"}
             /\ art.status = "complete" <=> normalized # << >>]_vars

\* generator 0 ended after white space only, generator 1 after text
C11_Witness ==
  /\ batch.phase = "generating"
  /\ HasSession(sessions, batch.sessionId)
  /\ gen[0].pc = "done" /\ gen[0].acc = << " " >>
  /\ gen[1].pc = "done" /\ gen[1].acc = << "a" >>
  /\ BatchArtifact(sessions, 0).status = "error"
  /\ BatchArtifact(sessions, 0).html = << >>
  /\ BatchArtifact(sessions, 1).status = "complete"
  /\ BatchArtifact(sessions, 1).html = << "a" >>

IsPrefix(s, t) == Len(s) <= Len(t) /\ SubSeq(t, 1, Len(s)) = s

\* C12: while an artifact is streaming and its session is in history, the
\* publish of an increment of its stream appends that increment to its html,
\* and no step takes anything away from its html: after the k-th increment
\* the html is increments 1..k in stream order, whatever the other
\* generators publish in between.
C12_InOrderPublish ==
  [][\A i \in ArtIdx :
       (/\ HasSession(sessions, batch.sessionId)
        /\ HasSession(sessions', batch.sessionId)
        /\ batch.phase = "generating"
        /\ BatchArtifact(sessions, i).status = "streaming"
        /\ BatchArtifact(sessions', i).status = "streaming") =>
         /\ IsPrefix(BatchArtifact(sessions, i).html, BatchArtifact(sessions', i).html)
         /\ \A t \in StreamTexts :
              GenChunk(i, t) =>
                BatchArtifact(sessions', i).html = BatchArtifact(sessions, i).html \o t]_vars

\* artifact 0 holds two increments in order while artifact 1 holds one,
\* published between them or around them
C12_Witness ==
  /\ batch.phase = "generating"
  /\ HasSession(sessions, batch.sessionId)
  /\ BatchArtifact(sessions, 0).status = "streaming"
  /\ BatchArtifact(sessions, 0).html = << "a", "b" >>
  /\ BatchArtifact(sessions, 1).html = << "b" >>

AdvanceExists ==
  IF focusedArtifactIndex # Null
    THEN HasCurrent /\ focusedArtifactIndex + 1 < Len(CurrentArtifacts)
    ELSE currentSessionIndex + 1 < Len(sessions)

\* C14: advance is on offer exactly when the place it moves to exists; it
\* then moves the focus to the next artifact while one is focused, and the
\* current session index to the next session otherwise, changing nothing
\* else.
C14_Advance ==
  /\ [](canGoForward <=> AdvanceExists)
  /\ [][nextItem =>
          /\ AdvanceExists
          /\ sessions' = sessions
          /\ IF focusedArtifactIndex # Null
               THEN /\ focusedArtifactIndex' = focusedArtifactIndex + 1
                    /\ currentSessionIndex' = currentSessionIndex
               ELSE /\ currentSessionIndex' = currentSessionIndex + 1
                    /\ focusedArtifactIndex' = Null]_vars

\* the middle artifact of the first of two sessions is focused: a next
\* artifact and a next session both exist
C14_Witness ==
  /\ Len(sessions) = 2
  /\ currentSessionIndex = 0
  /\ focusedArtifactIndex = 1
  /\ Len(CurrentArtifacts) = N
  /\ canGoForward

\* -------------------------------------------------------------------- C15
\* C15: a step of advance or retreat taken while an artifact is focused
\* leaves currentSessionIndex as it is and keeps an artifact focused; one
\* that changes currentSessionIndex is taken with no artifact focused.
C15_NoImplicitCrossing ==
  [][(nextItem \/ prevItem) =>
       /\ focusedArtifactIndex # Null =>
            /\ currentSessionIndex' = currentSessionIndex
            /\ focusedArtifactIndex' # Null
       /\ currentSessionIndex' # currentSessionIndex =>
            /\ focusedArtifactIndex = Null
            /\ focusedArtifactIndex' = Null]_vars

\* the first artifact of the second session is focused: retreat has no
\* artifact to go back to, while a previous session exists
C15_Witness ==
  /\ Len(sessions) = 2
  /\ currentSessionIndex = 1
  /\ focusedArtifactIndex = 0
  /\ ~canGoBack

\* -------------------------------------------------------------------- C16
\* C16: reset can be taken in every state, a batch in flight included, and
\* yields an empty history, currentSessionIndex -1 and no focus.
C16_Reset ==
  /\ [](ENABLED HandleGoHome)
  /\ [][HandleGoHome =>
          /\ sessions' = << >>
          /\ currentSessionIndex' = -1
          /\ focusedArtifactIndex' = Null]_vars

\* the history is empty while the generators of a batch are still streaming
C16_Witness ==
  /\ batch.phase = "generating"
  /\ \E i \in ArtIdx : gen[i].pc = "streaming" /\ gen[i].acc # << >>
  /\ isLoading
  /\ sessions = << >>
  /\ currentSessionIndex = -1
  /\ focusedArtifactIndex = Null

\* -------------------------------------------------------------------- C17
\* the ids and prompts of the sessions in h2 from position 1 to Len(h) are
\* those of h
KeepsIdentity(h, h2) ==
  /\ Len(h) <= Len(h2)
  /\ \A x \in 1 .. Len(h) : h2[x].id = h[x].id /\ h2[x].prompt = h[x].prompt

\* C17: every step other than a reset either leaves the sequence of sessions
\* with its ids and prompts as it is, or appends one session with a new id
\* at the end.
C17_AppendOnly ==
  [][\/ HandleGoHome
     \/ /\ Len(sessions') = Len(sessions)
        /\ KeepsIdentity(sessions, sessions')
     \/ /\ Len(sessions') = Len(sessions) + 1
        /\ KeepsIdentity(sessions, sessions')
        /\ ~HasSession(sessions, sessions'[Len(sessions')].id)]_vars

\* a restored session is followed by a generated one whose artifacts have
\* been labelled and one of them finalized
C17_Witness ==
  /\ Len(sessions) = 2
  /\ Len(sessions[1].artifacts) = 1
  /\ Len(sessions[2].artifacts) = N
  /\ sessions[2].artifacts[1].styleName \in Labels
  /\ \E y \in 1 .. N : sessions[2].artifacts[y].status = "complete"

\* -------------------------------------------------------------------- C18
ArtifactIds(sess) == [y \in 1 .. Len(sess.artifacts) |-> sess.artifacts[y].id]

\* the ids handleSendMessage gives the placeholders of session sessionId
PlaceholderIds(sessionId) == [y \in 1 .. N |-> << sessionId, y - 1 >>]

\* C18: a generate request creates a session of exactly 3 artifacts; the
\* number, order and ids of the artifacts of a session stay as they are in
\* every step that keeps the session; hence every session in history holds
\* either the 3 placeholders' ids of a generated session or the one artifact
\* of a restored one.
C18_ArtifactCountFixed ==
  /\ [][(\E p \in Prompts : HandleSendMessage(p)) /\ Len(sessions') = Len(sessions) + 1 =>
          ArtifactIds(sessions'[Len(sessions')]) =
            PlaceholderIds(sessions'[Len(sessions')].id)]_vars
  /\ [][\A x \in 1 .. Len(sessions) :
          (x <= Len(sessions') /\ sessions'[x].id = sessions[x].id) =>
            ArtifactIds(sessions'[x]) = ArtifactIds(sessions[x])]_vars
  /\ [](\A x \in 1 .. Len(sessions) :
          \/ ArtifactIds(sessions[x]) = PlaceholderIds(sessions[x].id)
          \/ Len(sessions[x].artifacts) = 1)

\* a generated session still has its 3 artifacts after the labels, a
\* finalization and an applied variation
C18_Witness ==
  \E x \in 1 .. Len(sessions) :
    /\ ArtifactIds(sessions[x]) = PlaceholderIds(sessions[x].id)
    /\ sessions[x].artifacts[1].styleName \in Labels
    /\ \E y, z \in 1 .. N :
         /\ y # z
         /\ sessions[x].artifacts[y].html = << "v" >>
         /\ sessions[x].artifacts[z].status = "complete"
         /\ sessions[x].artifacts[z].html = << "a" >>

\* -------------------------------------------------------------------- C19
WellFormed(variation) == variation.name # "" /\ variation.html # << >>

\* C19: the start of a variation request empties the variation list; each
\* object the extractor yields is appended at the end of the list if both
\* its name and its html are non-empty and leaves the list as it is
\* otherwise; nothing else changes the list.
C19_VariationList ==
  /\ [][(HandleGenerateVariationsWithin(MaxViewRequests) /\ varRequests' # varRequests) =>
          componentVariations' = << >>]_vars
  /\ [][\A v \in VariationObjects :
          VarEmitWithin(v, MaxListed) =>
            componentVariations' =
              IF WellFormed(v) THEN componentVariations \o << v >>
              ELSE componentVariations]_vars
  /\ [][componentVariations' # componentVariations =>
          \/ HandleGenerateVariationsWithin(MaxViewRequests)
          \/ \E v \in VariationObjects : VarEmitWithin(v, MaxListed)]_vars

\* the second request of a run has listed two different variations in the
\* order they were yielded
C19_Witness ==
  /\ varRequests = 2
  /\ varStream = "streaming"
  /\ componentVariations =
       << [name |-> "U", html |-> << "u" >>], [name |-> "V", html |-> << "v" >>] >>

\* -------------------------------------------------------------------- C20
\* C20: applying a variation with html h while an artifact is focused sets
\* the html of the focused artifact of the current session to h and its
\* status to complete, keeps its id and styleName, leaves every other
\* artifact, every other session and the navigation as they are, and closes
\* the variation view; with no artifact focused it changes nothing.
C20_ApplyVariation ==
  [][\A v \in EmittedObjects :
       applyVariation(v.html) =>
         IF focusedArtifactIndex = Null
           THEN UNCHANGED vars
           ELSE
             /\ HasCurrent /\ InRange(CurrentArtifacts, focusedArtifactIndex)
             /\ Len(sessions') = Len(sessions)
             /\ \A x \in 1 .. Len(sessions) :
                  /\ sessions'[x].id = sessions[x].id
                  /\ sessions'[x].prompt = sessions[x].prompt
                  /\ Len(sessions'[x].artifacts) = Len(sessions[x].artifacts)
                  /\ \A y \in 1 .. Len(sessions[x].artifacts) :
                       LET old == sessions[x].artifacts[y]
                           new == sessions'[x].artifacts[y]
                       IN  IF x - 1 = currentSessionIndex /\ y - 1 = focusedArtifactIndex
                             THEN /\ new.html = v.html
                                  /\ new.status = "complete"
                                  /\ new.id = old.id
                                  /\ new.styleName = old.styleName
                             ELSE new = old
             /\ ~drawerState'.isOpen
             /\ UNCHANGED << navVars, componentVariations >>]_vars

\* the variation replaced the html of the restored artifact it was made
\* for, and the view is closed
C20_Witness ==
  /\ drawerState.mode = "variations"
  /\ ~drawerState.isOpen
  /\ componentVariations # << >>
  /\ Len(sessions) = 1
  /\ sessions[1].artifacts =
       << [id |-> drawerState.data, styleName |-> "Saved", html |-> << "v" >>,
           status |-> "complete"] >>


\* ----------------------------------------------------------------
\* C21: a generate request whose prompt is empty or holds only
\* whitespace is a no-op: the history, currentSessionIndex,
\* focusedArtifactIndex and the loading flag are unchanged, no id is
\* drawn and no request is issued (no batch, no generator starts)
\* ----------------------------------------------------------------
Blank(p) == \A k \in 1 .. Len(p) : IsWs(p[k])

C21_BlankPromptNoOp ==
  [][\A p \in Prompts :
       (Blank(p) /\ HandleSendMessage(p)) =>
         UNCHANGED << sessions, currentSessionIndex, focusedArtifactIndex,
                      isLoading, batch, gen, nextId >>]_vars

\* an idle App with a history, where a prompt with text would be accepted
\* and the blank one is submitted
C21_Witness ==
  /\ sessions # << >>
  /\ ~isLoading
  /\ nextId - 2 * restored <= MaxBatches
  /\ ENABLED HandleSendMessage(<< " " >>)
  /\ ENABLED (HandleSendMessage(<< " ", "p" >>) /\ sessions' # sessions)


\* ----------------------------------------------------------------
\* C22: a fatal abort before phase 2.  When the credential is missing
\* (the throw of line 347) or the direction-resolution request fails,
\* no generator is launched, loading becomes false, every session that
\* existed before the request is unchanged, and the 3 placeholders of
\* the new session keep status streaming and empty html: the abort
\* itself writes nothing to the history.
\* ----------------------------------------------------------------
\* the generate request that aborts on the missing credential
AbortNoKey ==
  /\ ~apiKey
  /\ ~isLoading
  /\ \E p \in Prompts : ~Blank(p) /\ HandleSendMessage(p)

IsPlaceholder(art) == art.status = "streaming" /\ art.html = << >>

NoGeneratorLaunched ==
  /\ gen' = gen
  /\ chunksLeft' = chunksLeft
  /\ \A i \in ArtIdx : gen'[i].pc # "streaming"
  /\ batch' = NoBatch

C22_FatalAbort ==
  [][/\ AbortNoKey =>
          /\ NoGeneratorLaunched
          /\ ~isLoading'
          /\ Len(sessions') = Len(sessions) + 1
          /\ SubSeq(sessions', 1, Len(sessions)) = sessions
          /\ Len(sessions'[Len(sessions')].artifacts) = N
          /\ \A y \in 1 .. N : IsPlaceholder(sessions'[Len(sessions')].artifacts[y])
     /\ ResolveFail =>
          /\ NoGeneratorLaunched
          /\ ~isLoading'
          /\ sessions' = sessions
          /\ HasSession(sessions, batch.sessionId) =>
               \A i \in ArtIdx :
                 \/ IsPlaceholder(BatchArtifact(sessions', i))
                 \/ /\ BatchArtifact(sessions', i).status = "complete"
                    /\ \E v \in EmittedObjects : BatchArtifact(sessions', i).html = v.html]_vars

\* the resolution request has failed behind an earlier session: the new
\* session holds its 3 placeholders and nothing is loading
C22_Witness ==
  /\ apiKey
  /\ ~isLoading
  /\ batch = NoBatch
  /\ Len(sessions) = 2
  /\ \A i \in ArtIdx : gen[i].pc = "idle"
  /\ \A y \in 1 .. N : IsPlaceholder(sessions[2].artifacts[y])


\* ----------------------------------------------------------------
\* C23: a stream failure.  When the request or the stream of a
\* generator fails after k increments were published, the failure
\* publishes nothing: the artifact's status stays streaming and its
\* html stays the concatenation of those k increments (the text
\* accumulated so far), and from then on that generator publishes
\* nothing further, so no later step changes the artifact; the generator
\* runs again only for the next batch.
\* ----------------------------------------------------------------
\* artifact i is the same in every session that both histories hold, the
\* session whose direction labels are being resolved aside (its generators
\* have not started)
SameArtifact(h1, h2, i) ==
  \A x \in 1 .. Len(h1) :
    (/\ x <= Len(h2)
     /\ h2[x].id = h1[x].id
     /\ i < Len(h1[x].artifacts)
     /\ ~(batch.phase = "resolving" /\ h1[x].id = batch.sessionId)) =>
      At(h2[x].artifacts, i) = At(h1[x].artifacts, i)

C23_StreamFailure ==
  [][\A i \in ArtIdx :
       /\ GenFail(i) =>
            /\ sessions' = sessions
            /\ gen'[i].pc = "failed"
            /\ HasSession(sessions, batch.sessionId) =>
                 /\ BatchArtifact(sessions', i).status = "streaming"
                 /\ BatchArtifact(sessions', i).html = gen[i].acc
       /\ gen[i].pc = "failed" =>
            /\ gen'[i].pc = "failed" \/ batch.phase = "resolving"
            /\ ~Publish(i)
            /\ SameArtifact(sessions, sessions', i)]_vars

\* generator 0 failed after the increments "a" and "b"; the batch has
\* settled and the artifact is still streaming with the text "ab"
C23_Witness ==
  /\ sessions # << >>
  /\ ~isLoading
  /\ gen[0].pc = "failed"
  /\ sessions[1].artifacts[1].status = "streaming"
  /\ sessions[1].artifacts[1].html = << "a", "b" >>


\* ================================================================
\* the end of a body stream, over accumulated texts with code fences
\* ================================================================
MaxTokens == 4

\* pieces of an accumulated text: white space, text, a backquote, a code
\* fence, a code fence with the html language tag
NormTokens == { << " " >>, << "a" >>, << "^" >>, Fence, FenceHtml }

RECURSIVE Flatten(_)
Flatten(pieces) ==
  IF pieces = << >> THEN << >> ELSE Head(pieces) \o Flatten(Tail(pieces))

AccumulatedTexts == {Flatten(pieces) : pieces \in SeqsUpTo(NormTokens, MaxTokens)}

\* the batch in phase 2: generator 0 has published its accumulated text, its
\* siblings have received nothing yet
InitNormalize ==
  /\ ExIdle
  /\ apiKey = TRUE
  /\ isLoading = TRUE
  /\ nextId = 2
  /\ restored = 0
  /\ currentSessionIndex = 0
  /\ focusedArtifactIndex = Null
  /\ drawerState = ClosedDrawer
  /\ componentVariations = << >>
  /\ varStream = "idle"
  /\ varRequests = 0
  /\ chunksLeft = 0
  /\ batch = [phase |-> "generating", sessionId |-> 1,
              styles |-> ResolveStyles(<< >>), dropped |-> FALSE]
  /\ \E acc \in AccumulatedTexts :
       /\ gen = [i \in ArtIdx |->
                   [pc |-> "streaming", acc |-> IF i = 0 THEN acc ELSE << >>]]
       /\ sessions =
            PatchHtml(PatchStyles(<< NewSession(1, << "p" >>) >>, 1,
                                  ResolveStyles(<< >>)),
                      1, << 1, 0 >>, acc)

NextNormalize ==
  \/ \E i \in ArtIdx : GenEnd(i)
  \/ \E i \in ArtIdx : GenFail(i)

SpecNormalize == InitNormalize /\ [][NextNormalize]_vars

\* the fence marker a trimmed text opens with: the fence and its html tag
LeadingMarker(t) == IF StartsWith(t, FenceHtml) THEN FenceHtml ELSE Fence

\* neither a leading nor a trailing fence marker
Unfenced(text) ==
  /\ ~StartsWith(Trim(text), Fence)
  /\ ~EndsWith(Trim(text), Fence)

\* a leading marker, an inner content, a trailing marker
Wrapped(text) ==
  /\ StartsWith(Trim(text), Fence)
  /\ EndsWith(Trim(text), Fence)
  /\ Len(Trim(text)) >= Len(LeadingMarker(Trim(text))) + Len(Fence)

InnerContent(text) ==
  SubSeq(Trim(text), Len(LeadingMarker(Trim(text))) + 1, Len(Trim(text)) - Len(Fence))

\* C24: the normalization at the end of a stream.  For an accumulated text
\* with no leading and no trailing fence marker the published html is the
\* text trimmed of surrounding white space; for a text wrapped in a leading
\* and a trailing fence marker it is exactly the inner content, trimmed.
C24_Normalization ==
  [][(GenEnd(0) /\ HasSession(sessions, batch.sessionId)) =>
       LET text == gen[0].acc
           finalHtml == BatchArtifact(sessions', 0).html
       IN  /\ Unfenced(text) => finalHtml = Trim(text)
           /\ Wrapped(text) => finalHtml = Trim(InnerContent(text))]_vars


\* ================================================================
\* parseJsonStream over streams with malformed spans
\* ================================================================
\* a balanced span that is not JSON and holds an object
JunkNested == << "junk", << "{", "a", "{", "}", "}" >> >>

JunkInputs ==
  {[items |-> its, framing |-> "concat"] :
     its \in SeqsUpTo({ObjAB, ObjEmpty, ObjBraceValue, Junk, JunkNested}, MaxItems)}

InitExtractJunk ==
  /\ AppInit
  /\ exInput \in JunkInputs
  /\ exSent = 0
  /\ exFrags = 0
  /\ buffer = << >>
  /\ yielded = << >>
  /\ exPc = "reading"

SpecExtractJunk == InitExtractJunk /\ [][NextExtract]_vars

\* the buffer the loop starts from, for a chunk of k characters: buffer += text
Fed(k) == buffer \o SubSeq(TextOf(exInput), exSent + 1, exSent + k)

OpenAt(b, s) == s \in 0 .. (Len(b) - 1) /\ At(b, s) = "{"

\* the candidate span that opens at s: its closing brace, its parse
CloseOf(b, s) == MatchEnd(b, s, s, 0)

ParseOf(b, s) == JsonParse(SubSeq(b, s + 1, CloseOf(b, s) + 1))

FailsAt(b, s) == CloseOf(b, s) # -1 /\ ~ParseOf(b, s).ok

\* the opening braces the search visits: each one before them opens a
\* balanced candidate that fails to parse
Visited(b) ==
  {s \in 0 .. (Len(b) - 1) :
     /\ OpenAt(b, s)
     /\ \A u \in 0 .. (s - 1) : OpenAt(b, u) => FailsAt(b, u)}

IsSuffix(s, t) == Len(s) <= Len(t) /\ SubSeq(t, Len(t) - Len(s) + 1, Len(t)) = s

\* C25: a parse failure in the extractor.  A balanced candidate that fails to
\* parse emits nothing and leaves the buffer unchanged, and the search
\* continues at the next '{' after the candidate's opening brace (inside the
\* failed span too).  When a later candidate parses it is emitted, and the
\* buffer is cut to the text after its closing brace, the malformed text
\* before it being discarded; when none does, the chunk emits nothing and the
\* buffer keeps all of its text.
C25_ParseFailure ==
  [][\A k \in 0 .. (Len(TextOf(exInput)) - exSent) :
       ExChunk(k) =>
         LET b == Fed(k)
             good == {s \in Visited(b) : CloseOf(b, s) # -1 /\ ParseOf(b, s).ok}
         IN  IF good = {}
               THEN yielded' = yielded /\ buffer' = b
               ELSE LET s == Min(good)
                        rest == Drop(b, CloseOf(b, s) + 1)
                    IN  /\ Len(yielded') > Len(yielded)
                        /\ SubSeq(yielded', 1, Len(yielded)) = yielded
                        /\ yielded'[Len(yielded) + 1] = ParseOf(b, s).val
                        /\ IsSuffix(buffer', rest)
                        /\ IndexOf(rest, "{", 0) = -1 =>
                             /\ buffer' = rest
                             /\ Len(yielded') = Len(yielded) + 1]_vars

\* the object inside the malformed span was emitted, then the object behind
\* it, and the brace left over from the malformed span was discarded
C25_Witness ==
  /\ exInput.items = << JunkNested, ObjAB >>
  /\ yielded = << ObjEmpty, ObjAB >>
  /\ buffer = << >>
  /\ exPc = "reading"


\* ----------------------------------------------------------------
\* C26: mutations are addressed by stable id.  A variation is only ever
\* applied to the artifact the variation request was started for (the
\* one focused when the variation view was opened, whose id the view
\* holds in drawerState.data), even if the focus or the current session
\* changed, or a session was created, between the request and the click
\* on one of its results.
\* ----------------------------------------------------------------
C26_AppliedToRequested ==
  [][ApplyStep =>
       \A x \in 1 .. Len(sessions) :
         \A y \in 1 .. Len(sessions[x].artifacts) :
           sessions'[x].artifacts[y] # sessions[x].artifacts[y] =>
             sessions[x].artifacts[y].id = drawerState.data]_vars


\* ----------------------------------------------------------------
\* C27: the current-index invariant.  In every reachable state
\* currentSessionIndex is -1 if and only if the history is empty, and
\* otherwise 0 <= currentSessionIndex < number of sessions.  Right after
\* a generate or a restore request it addresses the session just
\* appended, also while a batch whose session was reset is still
\* publishing, and no publish of a batch moves it.
\* ----------------------------------------------------------------
IndexInRange ==
  /\ currentSessionIndex = -1 <=> sessions = << >>
  /\ sessions # << >> => currentSessionIndex \in 0 .. (Len(sessions) - 1)

\* a generate request that was accepted, or a restore
AppendStep ==
  \/ \E p \in Prompts : HandleSendMessage(p) /\ sessions' # sessions
  \/ \E saved \in SavedVault : HandleRestoreFromVault(saved)

C27_CurrentIndex ==
  /\ []IndexInRange
  /\ [][/\ AppendStep =>
            /\ Len(sessions') = Len(sessions) + 1
            /\ SubSeq(sessions', 1, Len(sessions)) = sessions
            /\ currentSessionIndex' = Len(sessions') - 1
        /\ BatchPublish => currentSessionIndex' = currentSessionIndex]_vars

\* a session was restored after the reset, while the batch of the session
\* that was reset is still in phase 2 and has had a publish dropped
C27_Witness ==
  /\ Orphaned
  /\ batch.phase = "generating"
  /\ batch.dropped
  /\ Len(sessions) = 1
  /\ currentSessionIndex = 0
  /\ focusedArtifactIndex = 0


\* ----------------------------------------------------------------
\* C28: an applied variation is not overwritten by generation.  Once a
\* variation with html h was applied to an artifact, its html stays h
\* and its status stays complete under every interleaving with the
\* increment and final publishes of that artifact's own generator.
\* (While generator i is streaming, only an applied variation can have
\* made its artifact complete.)
\* ----------------------------------------------------------------
VariationApplied(i) ==
  /\ HasSession(sessions, batch.sessionId)
  /\ gen[i].pc = "streaming"
  /\ BatchArtifact(sessions, i).status = "complete"
  /\ \E v \in EmittedObjects : BatchArtifact(sessions, i).html = v.html

C28_VariationKept ==
  [][\A i \in ArtIdx :
       (VariationApplied(i) /\ Publish(i)) =>
         /\ BatchArtifact(sessions', i).html = BatchArtifact(sessions, i).html
         /\ BatchArtifact(sessions', i).status = "complete"]_vars


\* ================================================================
\* the App under fair scheduling of what the network delivers
\* ================================================================
\* Every action of the App, with one prompt and one direction response.
NextFair ==
  \/ \E p \in {<< >>, << " ", "p" >>} : HandleSendMessage(p)
  \/ ResolveFail
  \/ Resolve(<< >>)
  \/ \E i \in ArtIdx : GenFail(i)
  \/ \E i \in ArtIdx : \E t \in ChunkTexts : GenChunk(i, t)
  \/ \E i \in ArtIdx : GenSkip(i)
  \/ \E i \in ArtIdx : GenEnd(i)
  \/ HandleGoHome
  \/ \E saved \in SavedVault : HandleRestoreFromVault(saved)
  \/ \E a \in ArtIdx : Focus(a)
  \/ Unfocus
  \/ nextItem
  \/ prevItem
  \/ HandleGenerateVariations
  \/ VarFail
  \/ \E v \in EmittedObjects : VarEmit(v)
  \/ VarEnd
  \/ \E v \in EmittedObjects : applyVariation(v.html)
  \/ CloseDrawer

\* Every issued request eventually returns or fails and every stream
\* eventually ends or fails: the direction request, each of the N body
\* streams, the variation stream.  Nothing is assumed of the user.
Fairness ==
  /\ WF_vars(ResolveFail \/ Resolve(<< >>))
  /\ \A i \in ArtIdx : WF_vars(GenEnd(i) \/ GenFail(i))
  /\ WF_vars(VarEnd \/ VarFail)

SpecFair == Init /\ [][NextFair]_vars /\ Fairness

====
